---- MODULE Spec2Model ----
(***************************************************************************)
(* Model of src/backend/routers/announcements.py: the five announcement    *)
(* endpoints over the announcements collection, with the teachers          *)
(* collection as a read-only membership check.                             *)
(*                                                                         *)
(* Strings are sequences of one-character strings.  A date string keeps    *)
(* the shape of an ISO-8601 string with every group of digits shortened to *)
(* one digit: "YYYY-MM-DD" is one day digit, "HH:MM:SS" one hour digit, so *)
(* "2026-11-04T10:00:00" reads <<"1","T","1">>, "2026-11-04 10:00:00"      *)
(* reads <<"1"," ","1">>, "2026-11-04" reads <<"1">>, and a trailing "Z"   *)
(* stays a trailing "Z".  A datetime is [ok, ts, aware]: ts counts hours   *)
(* since day 0, aware says whether it carries a UTC offset.                *)
(***************************************************************************)
EXTENDS Integers, Sequences, FiniteSets, Bags, TLC

VARIABLES
    store,      \* announcements_collection: a set of documents
    nextId,     \* the identifier the store assigns to the next insert
    now,        \* server time
    op,         \* the endpoint that produced the response at hand
    actor,      \* the username that request carried
    status,     \* the response: status code,
    detail,     \*   message,
    ret,        \*   and body (a list of documents)
    inflight    \* requests between their checks and their store operation

vars == <<store, nextId, now, op, actor, status, detail, ret, inflight>>

----
\* Bounds of the model.
MaxDay == 0
TicksPerDay == 3
MaxId == 2
MaxInflight == 2

MaxNow == (MaxDay + 1) * TicksPerDay - 1
Days == 0..MaxDay
Hours == 0..(TicksPerDay - 1)

----
\* Strings.
None == <<"null">>

Digits == <<"0", "1", "2", "3", "4", "5", "6", "7", "8", "9">>

Digit(n) == Digits[n + 1]

IsDigit(c) == \E i \in 1..Len(Digits) : Digits[i] = c

DigitVal(c) == (CHOOSE i \in 1..Len(Digits) : Digits[i] = c) - 1

\* The code point of a character: what a byte-wise comparison compares.
Ord(c) ==
    CASE c = " " -> 32
      [] c = "+" -> 43
      [] IsDigit(c) -> 48 + DigitVal(c)
      [] c = "T" -> 84
      [] c = "Z" -> 90
      [] c = "i" -> 105
      [] OTHER -> 120

\* a < b for strings, as the store compares them: code point by code point,
\* a proper prefix before the longer string.
RECURSIVE StrLt(_, _)
StrLt(a, b) ==
    IF b = <<>> THEN FALSE
    ELSE IF a = <<>> THEN TRUE
    ELSE IF Ord(Head(a)) # Ord(Head(b)) THEN Ord(Head(a)) < Ord(Head(b))
    ELSE StrLt(Tail(a), Tail(b))

StrLte(a, b) == a = b \/ StrLt(a, b)

StrGte(a, b) == StrLte(b, a)

\* Python truthiness of an Optional[str]: None and "" are falsy.
Truthy(s) == s # None /\ s # <<>>

----
\* Dates.

\* s.replace('Z', '+00:00'): "+" stands for the offset "+00:00".
replace(s) == [i \in 1..Len(s) |-> IF s[i] = "Z" THEN "+" ELSE s[i]]

ValueError == [ok |-> FALSE, ts |-> 0, aware |-> FALSE]

\* datetime.fromisoformat: a date, optionally followed by any one separator
\* character and a time, optionally followed by a UTC offset.
fromisoformat(s) ==
    IF Len(s) \in {1, 3, 4} /\ IsDigit(s[1]) /\ DigitVal(s[1]) \in Days
    THEN IF Len(s) = 1
         THEN [ok |-> TRUE, ts |-> DigitVal(s[1]) * TicksPerDay, aware |-> FALSE]
         ELSE IF IsDigit(s[3]) /\ DigitVal(s[3]) \in Hours
                 /\ (Len(s) = 4 => s[4] = "+")
              THEN [ok |-> TRUE,
                    ts |-> DigitVal(s[1]) * TicksPerDay + DigitVal(s[3]),
                    aware |-> Len(s) = 4]
              ELSE ValueError
    ELSE ValueError

\* datetime.isoformat() of a naive datetime.
isoformat(t) == <<Digit(t \div TicksPerDay), "T", Digit(t % TicksPerDay)>>

\* datetime.utcnow(): a naive datetime.
utcnow == [ok |-> TRUE, ts |-> now, aware |-> FALSE]

\* Comparing an offset-aware with an offset-naive datetime raises TypeError.
Comparable(a, b) == a.aware = b.aware

----
\* Identifiers.

\* str(ObjectId): the store's identifier n rendered as a string.
str(n) == <<"i", Digit(n)>>

\* ObjectId(announcement_id) succeeds on a well-formed identifier string.
ValidObjectId(s) == Len(s) = 2 /\ s[1] = "i" /\ IsDigit(s[2])

ObjectId(s) == DigitVal(s[2])

\* announcement["_id"] = str(announcement["_id"])
Rendered(doc) == [doc EXCEPT !._id = str(doc._id)]

----
\* The collections.

\* teachers_collection: keyed by username, read-only here.
Teachers == {"teacher1"}

find_one(username) == username \in Teachers

\* Every ordering of a set of documents as a list.
Orderings(S) ==
    {q \in [1..Cardinality(S) -> S] : \A d \in S : \E i \in DOMAIN q : q[i] = d}

\* .sort("created_at", -1): newest first, ties in any order.
SortedDesc(q) ==
    \A i, j \in DOMAIN q : i < j => StrGte(q[i].created_at, q[j].created_at)

\* The filter of get_active_announcements, as the store evaluates it:
\* $gte and $lte compare strings, {"start_date": None} matches null.
MatchesActive(doc, current_time) ==
    /\ doc.expiration_date # None
    /\ StrGte(doc.expiration_date, current_time)
    /\ \/ doc.start_date = None
       \/ doc.start_date # None /\ StrLte(doc.start_date, current_time)

----
\* The handlers: each yields the response and the collection it leaves.

Response(st, code, text, result) ==
    [store |-> st, status |-> code, detail |-> text, ret |-> result]

HTTPException(code, text) == Response(store, code, text, <<>>)

\* An exception no handler catches: the framework answers 500.
Uncaught == HTTPException(500, "Internal Server Error")

\* GET /announcements/active: the responses the store's order allows.
get_active_announcements ==
    LET current_time == isoformat(utcnow.ts)
        found == {d \in store : MatchesActive(d, current_time)}
    IN  {Response(store, 200, "OK", [i \in DOMAIN q |-> Rendered(q[i])]) :
            q \in Orderings(found)}

\* GET /announcements?username=
get_all_announcements(username) ==
    IF ~find_one(username)
    THEN {HTTPException(401, "Unauthorized")}
    ELSE {Response(store, 200, "OK", [i \in DOMAIN q |-> Rendered(q[i])]) :
            q \in {o \in Orderings(store) : SortedDesc(o)}}

\* POST /announcements
create_announcement(announcement) ==
    IF ~find_one(announcement.created_by)
    THEN HTTPException(401, "Unauthorized")
    ELSE IF ~Truthy(announcement.expiration_date)
    THEN HTTPException(400, "Expiration date is required")
    ELSE
    LET expiration == fromisoformat(replace(announcement.expiration_date))
        start == fromisoformat(replace(announcement.start_date))
        announcement_doc ==
            [_id |-> nextId,
             message |-> announcement.message,
             start_date |-> announcement.start_date,
             expiration_date |-> announcement.expiration_date,
             created_by |-> announcement.created_by,
             created_at |-> isoformat(utcnow.ts)]
    IN  IF ~expiration.ok
        THEN HTTPException(400, "Invalid date format")
        ELSE IF ~Comparable(expiration, utcnow)
        THEN Uncaught
        ELSE IF expiration.ts < utcnow.ts
        THEN HTTPException(400, "Expiration date must be in the future")
        ELSE IF Truthy(announcement.start_date) /\ ~start.ok
        THEN HTTPException(400, "Invalid date format")
        ELSE IF Truthy(announcement.start_date) /\ ~Comparable(start, expiration)
        THEN Uncaught
        ELSE IF Truthy(announcement.start_date) /\ start.ts >= expiration.ts
        THEN HTTPException(400, "Start date must be before expiration date")
        ELSE Response(store \cup {announcement_doc}, 200, "OK",
                      <<Rendered(announcement_doc)>>)

\* An update that replaces the three fields, supplied or not.
SetAll(doc, announcement) ==
    [doc EXCEPT
        !.message = announcement.message,
        !.start_date = announcement.start_date,
        !.expiration_date = announcement.expiration_date]

\* {"$set": update_doc}: the supplied fields replace the stored ones.
Set(doc, announcement) ==
    [doc EXCEPT
        !.message = IF announcement.message # None
                    THEN announcement.message ELSE @,
        !.start_date = IF announcement.start_date # None
                       THEN announcement.start_date ELSE @,
        !.expiration_date = IF announcement.expiration_date # None
                            THEN announcement.expiration_date ELSE @]

\* A store operation that fills a missing record in (upsert=True).
find_one_and_update_upsert(oid, announcement) ==
    LET blank == [_id |-> oid, message |-> None, start_date |-> None,
                  expiration_date |-> None, created_by |-> "-",
                  created_at |-> None]
        base == IF \E d \in store : d._id = oid
                THEN store ELSE store \cup {blank}
    IN  [store |-> {IF d._id = oid THEN Set(d, announcement) ELSE d :
                        d \in base},
         result |-> {Set(d, announcement) : d \in {e \in base : e._id = oid}}]

\* find_one_and_update({"_id": oid}, {"$set": ...}, return_document=True):
\* the collection it leaves and the updated document, if one matched.
find_one_and_update(oid, announcement) ==
    [store |-> {IF d._id = oid THEN Set(d, announcement) ELSE d :
                    d \in store},
     result |-> {Set(d, announcement) : d \in {e \in store : e._id = oid}}]

\* The handler goes on to its next statement.
Pass == Response(store, 0, "", <<>>)

\* update_announcement up to its store operation: the authentication read
\* and the validation of the body.
update_checks(announcement, username) ==
    IF ~find_one(username)
    THEN HTTPException(401, "Unauthorized")
    ELSE IF /\ announcement.message = None
            /\ announcement.start_date = None
            /\ announcement.expiration_date = None
    THEN HTTPException(400, "No fields to update")
    ELSE
    LET expiration == fromisoformat(replace(announcement.expiration_date))
        start == fromisoformat(replace(announcement.start_date))
        both == Truthy(announcement.start_date)
                    /\ Truthy(announcement.expiration_date)
    IN  IF Truthy(announcement.expiration_date) /\ ~expiration.ok
        THEN HTTPException(400, "Invalid date format")
        ELSE IF Truthy(announcement.expiration_date)
                    /\ ~Comparable(expiration, utcnow)
        THEN Uncaught
        ELSE IF Truthy(announcement.expiration_date)
                    /\ expiration.ts < utcnow.ts
        THEN HTTPException(400, "Expiration date must be in the future")
        ELSE IF both /\ ~start.ok
        THEN HTTPException(400, "Invalid date format")
        ELSE IF both /\ ~Comparable(start, expiration)
        THEN Uncaught
        ELSE IF both /\ start.ts >= expiration.ts
        THEN HTTPException(400, "Start date must be before expiration date")
        ELSE Pass

\* update_announcement from its store operation on.
update_store(announcement_id, announcement) ==
    IF ~ValidObjectId(announcement_id)
    THEN HTTPException(400, "Invalid announcement ID")
    ELSE
    LET found == find_one_and_update(ObjectId(announcement_id), announcement)
    IN  IF found.result = {}
        THEN Response(found.store, 404, "Announcement not found", <<>>)
        ELSE Response(found.store, 200, "OK",
                      <<Rendered(CHOOSE d \in found.result : TRUE)>>)

\* PUT /announcements/{announcement_id}?username=
update_announcement(announcement_id, announcement, username) ==
    LET checked == update_checks(announcement, username)
    IN  IF checked # Pass
        THEN checked
        ELSE update_store(announcement_id, announcement)

\* A delete that empties the collection.
delete_many(oid) ==
    [store |-> {}, deleted_count |-> Cardinality(store)]

\* delete_one({"_id": oid}): the collection it leaves and deleted_count.
delete_one(oid) ==
    [store |-> {d \in store : d._id # oid},
     deleted_count |-> Cardinality({d \in store : d._id = oid})]

\* A delete that asks for no authentication.
delete_unchecked(username) == Pass

\* delete_announcement up to its store operation.
delete_checks(username) ==
    IF ~find_one(username)
    THEN HTTPException(401, "Unauthorized")
    ELSE Pass

\* delete_announcement from its store operation on.
delete_store(announcement_id) ==
    IF ~ValidObjectId(announcement_id)
    THEN HTTPException(400, "Invalid announcement ID")
    ELSE
    LET result == delete_one(ObjectId(announcement_id))
    IN  IF result.deleted_count = 0
        THEN Response(result.store, 404, "Announcement not found", <<>>)
        ELSE Response(result.store, 200,
                      "Announcement deleted successfully", <<>>)

\* DELETE /announcements/{announcement_id}?username=
delete_announcement(announcement_id, username) ==
    LET checked == delete_checks(username)
    IN  IF checked # Pass
        THEN checked
        ELSE delete_store(announcement_id)

----
\* The requests the model sends.

Users == Teachers \cup {"visitor"}

NoUser == "-"

\* The date strings a request may carry: empty, not a date, a date alone
\* ("2026-11-04"), a date and time ("2026-11-04T10:00:00"), the same with a
\* space for the "T", and one with a "Z".
DateInputs ==
    {<<>>, <<"x">>, <<"0">>, <<"0", "T", "1">>, <<"0", " ", "1">>,
     <<"0", "T", "1", "Z">>}

IdInputs == {str(n) : n \in 1..MaxId} \cup {<<"x">>}

CreateBodies ==
    [message : {<<"a">>},
     start_date : {None} \cup DateInputs,
     expiration_date : DateInputs,
     created_by : Users]

UpdateBodies ==
    [message : {None, <<"b">>},
     start_date : {None} \cup DateInputs,
     expiration_date : {None} \cup DateInputs]

----
\* The state machine: one action per endpoint, and the clock.  A request is
\* handled from start to end before the next one.

Init ==
    /\ store = {}
    /\ nextId = 1
    /\ now = 0
    /\ op = "none"
    /\ actor = NoUser
    /\ status = 0
    /\ detail = ""
    /\ ret = <<>>
    /\ inflight = EmptyBag

Respond(r, name, username) ==
    /\ store' = r.store
    /\ status' = r.status
    /\ detail' = r.detail
    /\ ret' = r.ret
    /\ op' = name
    /\ actor' = username

GetActive ==
    /\ op = "none"
    /\ \E r \in get_active_announcements : Respond(r, "list_active", NoUser)
    /\ UNCHANGED <<nextId, now, inflight>>

GetAll ==
    /\ op = "none"
    /\ \E username \in Users :
        \E r \in get_all_announcements(username) :
            Respond(r, "list_all", username)
    /\ UNCHANGED <<nextId, now, inflight>>

\* insert_one assigns the next identifier.
Post(bodies) ==
    /\ nextId <= MaxId
    /\ \E announcement \in bodies :
        LET r == create_announcement(announcement)
        IN  /\ Respond(r, "create", announcement.created_by)
            /\ nextId' = IF r.status = 200 THEN nextId + 1 ELSE nextId
    /\ UNCHANGED <<now, inflight>>

Create ==
    /\ op = "none"
    /\ Post(CreateBodies)

Update ==
    /\ op = "none"
    /\ \E announcement_id \in IdInputs, announcement \in UpdateBodies,
          username \in Users :
        Respond(update_announcement(announcement_id, announcement, username),
                "update", username)
    /\ UNCHANGED <<nextId, now, inflight>>

Delete ==
    /\ op = "none"
    /\ \E announcement_id \in IdInputs, username \in Users :
        Respond(delete_announcement(announcement_id, username),
                "delete", username)
    /\ UNCHANGED <<nextId, now, inflight>>

\* The response is sent: the request is over.
Return ==
    /\ op # "none"
    /\ op' = "none"
    /\ actor' = NoUser
    /\ status' = 0
    /\ detail' = ""
    /\ ret' = <<>>
    /\ UNCHANGED <<store, nextId, now, inflight>>

\* Server time passes between requests.
Tick ==
    /\ op = "none"
    /\ now < MaxNow
    /\ now' = now + 1
    /\ UNCHANGED <<store, nextId, op, actor, status, detail, ret, inflight>>

Next == GetActive \/ GetAll \/ Create \/ Update \/ Delete \/ Return \/ Tick

Spec == Init /\ [][Next]_vars

----
\* Concurrent requests on one announcement.  The framework runs handlers
\* side by side; a handler touches the announcements only in its one store
\* operation, which the store runs atomically.  An update or delete request
\* is therefore two steps: its checks, then its store operation.  The
\* response variables hold the response sent last.

\* The announcement the concurrent requests are about.
ConcIds == {str(1)}

ConcCreateBodies ==
    [message : {<<"a">>},
     start_date : {None},
     expiration_date : {<<"0", " ", "1">>},
     created_by : Users]

ConcUpdateBodies ==
    [message : {None, <<"b">>, <<"c">>},
     start_date : {None, <<"0">>},
     expiration_date : {None, <<"0", "T", "1">>}]

Request(kind, announcement_id, announcement, username) ==
    [kind |-> kind, id |-> announcement_id, body |-> announcement,
     username |-> username]

NoBody == [message |-> None, start_date |-> None, expiration_date |-> None]

ConcCreate == Post(ConcCreateBodies)

\* The checks of an update: a failure is answered at once, otherwise the
\* request goes on to its store operation.
AcceptUpdate ==
    /\ BagCardinality(inflight) < MaxInflight
    /\ \E announcement_id \in ConcIds, announcement \in ConcUpdateBodies,
          username \in Users :
        LET r == update_checks(announcement, username)
        IN  IF r = Pass
            THEN /\ inflight' = inflight (+) SetToBag({Request("update",
                                    announcement_id, announcement, username)})
                 /\ UNCHANGED <<store, op, actor, status, detail, ret>>
            ELSE /\ Respond(r, "update", username)
                 /\ UNCHANGED inflight
    /\ UNCHANGED <<nextId, now>>

AcceptDelete ==
    /\ BagCardinality(inflight) < MaxInflight
    /\ \E announcement_id \in ConcIds, username \in Users :
        LET r == delete_checks(username)
        IN  IF r = Pass
            THEN /\ inflight' = inflight (+) SetToBag({Request("delete",
                                    announcement_id, NoBody, username)})
                 /\ UNCHANGED <<store, op, actor, status, detail, ret>>
            ELSE /\ Respond(r, "delete", username)
                 /\ UNCHANGED inflight
    /\ UNCHANGED <<nextId, now>>

\* The store operation of a request in flight, and its response.
StoreUpdate ==
    /\ \E q \in BagToSet(inflight) :
        /\ q.kind = "update"
        /\ inflight' = inflight (-) SetToBag({q})
        /\ Respond(update_store(q.id, q.body), "update", q.username)
    /\ UNCHANGED <<nextId, now>>

StoreDelete ==
    /\ \E q \in BagToSet(inflight) :
        /\ q.kind = "delete"
        /\ inflight' = inflight (-) SetToBag({q})
        /\ Respond(delete_store(q.id), "delete", q.username)
    /\ UNCHANGED <<nextId, now>>

ConcNext ==
    ConcCreate \/ AcceptUpdate \/ AcceptDelete \/ StoreUpdate \/ StoreDelete

SpecConc == Init /\ [][ConcNext]_vars

----
\* Vocabulary of the properties.

\* A stored or supplied date read as a timestamp.
Instant(s) == fromisoformat(replace(s))

IsTimestamp(s) == s # None /\ Instant(s).ok

StoredIds == {d._id : d \in store}

Returned == {ret[i] : i \in DOMAIN ret}

Idle == op = "none"

\* The announcement's display window, as timestamps, contains t or starts
\* before t and ends at t.
ActiveAt(d, t) ==
    /\ IsTimestamp(d.expiration_date)
    /\ Instant(d.expiration_date).ts >= t
    /\ \/ d.start_date = None
       \/ IsTimestamp(d.start_date) /\ Instant(d.start_date).ts <= t

----
\* C1: every stored announcement that has a start_date has it strictly
\* earlier than its expiration_date, whatever calls were made.  (Stated for
\* the records whose expiration_date is a timestamp; C5 is about the rest.)
C1_StartBeforeExpiration ==
    \A d \in store :
        (Truthy(d.start_date) /\ IsTimestamp(d.expiration_date)) =>
            /\ IsTimestamp(d.start_date)
            /\ Instant(d.start_date).ts < Instant(d.expiration_date).ts

\* C2: a list_all, create, update or delete call by a username that is no
\* teacher answers 401 and leaves the collection as it was.
C2_UnauthorizedNoMutation ==
    [][(op' \in {"list_all", "create", "update", "delete"}
            /\ actor' \notin Teachers)
        => (status' = 401 /\ store' = store /\ nextId' = nextId)]_vars

C2_Witness ==
    /\ op = "delete"
    /\ actor = "visitor"
    /\ status = 401
    /\ Cardinality(store) = 2

\* C3: list_active returns exactly the stored announcements whose
\* expiration_date is at or after now and whose start_date is absent or at
\* or before now, as timestamps.
C3_ActiveByTimestamp ==
    op = "list_active" =>
        Returned = {Rendered(d) : d \in {e \in store : ActiveAt(e, now)}}

\* C4: every record create inserts has an expiration_date strictly after
\* the server time of the call.
C4_CreatedExpiresLater ==
    (op = "create" /\ status = 200) =>
        Instant(ret[1].expiration_date).ts > now

\* C5: an update that supplies expiration_date is applied only if the value
\* parses and is strictly after now, so every stored expiration_date is a
\* valid timestamp.
C5_ExpirationIsTimestamp ==
    \A d \in store : IsTimestamp(d.expiration_date)

\* C6: a successful update changes, in the record with the given id,
\* exactly the supplied fields among message, start_date and
\* expiration_date; its other fields and every other record stay as they
\* were, and no record is added or removed.
C6_UpdateFrame ==
    Idle =>
        \A announcement_id \in IdInputs, announcement \in UpdateBodies,
           username \in Users :
            LET r == update_announcement(announcement_id, announcement,
                                         username)
            IN  r.status = 200 =>
                    \E d \in store, e \in r.store :
                        /\ str(d._id) = announcement_id
                        /\ r.store = (store \ {d}) \cup {e}
                        /\ r.ret = <<Rendered(e)>>
                        /\ e._id = d._id
                        /\ e.created_by = d.created_by
                        /\ e.created_at = d.created_at
                        /\ e.message = IF announcement.message = None
                                       THEN d.message
                                       ELSE announcement.message
                        /\ e.start_date = IF announcement.start_date = None
                                          THEN d.start_date
                                          ELSE announcement.start_date
                        /\ e.expiration_date =
                                IF announcement.expiration_date = None
                                THEN d.expiration_date
                                ELSE announcement.expiration_date

C6_Witness ==
    /\ op = "update"
    /\ status = 200
    /\ Cardinality(store) = 2
    /\ ret[1].message = <<"b">>
    /\ ret[1].start_date = <<"0">>
    /\ \E d \in store : d.message = <<"a">> /\ d.start_date = None

\* Delete by a teacher, for every well-formed id: the one record it names is
\* removed, or there is none and the answer is 404 with nothing changed.
C7_DeleteOutcome ==
    Idle =>
        \A announcement_id \in IdInputs, username \in Teachers :
            ValidObjectId(announcement_id) =>
                LET r == delete_announcement(announcement_id, username)
                    hit == {d \in store : str(d._id) = announcement_id}
                IN  IF hit = {}
                    THEN r.status = 404 /\ r.store = store
                    ELSE /\ r.status = 200
                         /\ \E d \in hit : r.store = store \ {d}

\* An identifier that was assigned and is stored no more is neither stored
\* nor listed after the step.
C7_GoneStaysGone ==
    \A n \in 1..MaxId :
        (n < nextId /\ n \notin StoredIds) =>
            /\ n \notin StoredIds'
            /\ \A i \in DOMAIN ret' : ret'[i]._id # str(n)

\* C7: delete by a teacher removes exactly the record a well-formed id
\* names, and answers 404 and changes nothing when the id names none; an
\* identifier that is gone never comes back, in the collection or in a
\* listing, so a second delete of it answers 404.
C7_DeleteRemovesForGood == []C7_DeleteOutcome /\ [][C7_GoneStaysGone]_vars

C7_Witness ==
    /\ op = "delete"
    /\ status = 404
    /\ nextId = MaxId + 1
    /\ Cardinality(store) = 1

\* C8: a created announcement is in every list_all of a teacher until it is
\* deleted, and in list_active at every time from its start_date (if any)
\* up to its expiration_date.
C8_CreatedIsListed ==
    /\ (op = "list_all" /\ status = 200) =>
            Returned = {Rendered(d) : d \in store}
    /\ op = "list_active" =>
            \A d \in store :
                (/\ d.message = <<"a">>
                 /\ d.start_date = None \/ IsTimestamp(d.start_date)
                 /\ IsTimestamp(d.expiration_date)
                 /\ d.start_date # None =>
                        Instant(d.start_date).ts <= now
                 /\ now < Instant(d.expiration_date).ts)
                    => Rendered(d) \in Returned

\* C9: create reports the first failure in the order unknown created_by,
\* missing expiration_date, unparseable expiration_date, expiration_date
\* not in the future, unparseable start_date, start_date not before
\* expiration_date, and inserts a record exactly when none of them fails.
C9_Expected(announcement) ==
    LET expiration == Instant(announcement.expiration_date)
        start == Instant(announcement.start_date)
    IN  IF announcement.created_by \notin Teachers
        THEN <<401, "Unauthorized">>
        ELSE IF announcement.expiration_date = <<>>
        THEN <<400, "Expiration date is required">>
        ELSE IF ~expiration.ok
        THEN <<400, "Invalid date format">>
        ELSE IF expiration.ts <= now
        THEN <<400, "Expiration date must be in the future">>
        ELSE IF Truthy(announcement.start_date) /\ ~start.ok
        THEN <<400, "Invalid date format">>
        ELSE IF Truthy(announcement.start_date) /\ start.ts >= expiration.ts
        THEN <<400, "Start date must be before expiration date">>
        ELSE <<200, "OK">>

C9_CreateFirstFailure ==
    Idle =>
        \A announcement \in CreateBodies :
            LET r == create_announcement(announcement)
            IN  /\ <<r.status, r.detail>> = C9_Expected(announcement)
                /\ (r.store # store) <=> (r.status = 200)

\* The store operation of an update in flight: it changes at most the
\* stored record with its id, to the fields it supplies, and answers 404 and
\* changes nothing when the record is gone.
C10_UpdateStoreStep ==
    \A q \in BagToSet(inflight) :
        (q.kind = "update" /\ inflight' = inflight (-) SetToBag({q})) =>
            /\ Cardinality(store') <= Cardinality(store)
            /\ StoredIds' = StoredIds
            /\ ObjectId(q.id) \notin StoredIds =>
                    (status' = 404 /\ store' = store)
            /\ \A d \in store :
                    IF d._id = ObjectId(q.id)
                    THEN \E e \in store' :
                            /\ status' = 200
                            /\ store' = (store \ {d}) \cup {e}
                            /\ e = [d EXCEPT
                                !.message =
                                    IF q.body.message = None
                                    THEN @ ELSE q.body.message,
                                !.start_date =
                                    IF q.body.start_date = None
                                    THEN @ ELSE q.body.start_date,
                                !.expiration_date =
                                    IF q.body.expiration_date = None
                                    THEN @ ELSE q.body.expiration_date]
                    ELSE d \in store'

C10_OnePerId == \A d, e \in store : d._id = e._id => d = e

\* C10: whatever the interleaving of concurrent updates and deletes of one
\* announcement, an update whose store operation comes after the delete's
\* answers 404 and does not bring the record back; a stored record holds
\* the fields the last store operation on it wrote; no two records share an
\* id, and an update never adds a record.
C10_LastWriteWins ==
    /\ []C10_OnePerId
    /\ [][C10_UpdateStoreStep]_vars
    /\ [][C7_GoneStaysGone]_vars

C10_Witness ==
    /\ op = "update"
    /\ status = 404
    /\ nextId = MaxId + 1
    /\ StoredIds = {2}

====
